---- MODULE Spec2Model ----
(***************************************************************************)
(* Risk-gated concurrent strategy execution engine.                        *)
(*                                                                         *)
(*   RiskManager      src/core/risk_manager.py                             *)
(*   BaseStrategy     src/strategies/base_strategy.py                      *)
(*   StatArbPairs     src/strategies/stat_arb_pairs.py                     *)
(*   main             src/main.py                                          *)
(*                                                                         *)
(* Monetary values are Decimals built from str(float); every value used    *)
(* here is a whole number of dollars, so they are modelled as integers and *)
(* Decimal addition, subtraction and comparison are exact.                 *)
(***************************************************************************)
EXTENDS Integers, Sequences, FiniteSets, TLC

VARIABLES
    risk,       \* the one RiskManager shared by every strategy (RiskState)
    lastCall,   \* the most recent direct call of a RiskManager operation
    loop,       \* per strategy: the run() task (position, flags, position cache)
    legs,       \* per strategy: the two execute_order tasks of an entry
    brokerPos,  \* the broker's positions: symbol -> signed quantity
    sweeps,     \* close-all-positions calls issued on a shutdown path, per caller
    mainPc,     \* where main() is
    mainExit,   \* how main() left its try block
    sig         \* one StatArbPairs taken alone: its history and last signal

riskVars == <<risk, lastCall>>
sysVars == <<loop, legs, brokerPos, sweeps, mainPc, mainExit>>
vars == <<risk, lastCall, loop, legs, brokerPos, sweeps, mainPc, mainExit, sig>>

None == "None"

(***************************************************************************)
(* RiskConfig as built by main() and the account equity at start-up.       *)
(***************************************************************************)
max_daily_loss == 500
max_total_loss == 1000
max_position_size == 50000
max_leverage_x10 == 40
leverage_buffer_x10 == 1
initial_balance == 100000

\* Equities the broker may report, daily-PnL overrides a caller may pass
\* (<<>> is the default None) and trade / existing-exposure notionals handed
\* to the gate.
Equities == {98900, 99000, 99400, 99500, 99600, 100000}
DayPnls == {<<>>, <<-600>>, <<0>>}
Notionals == {0, 5000, 60000, 400000}

(***************************************************************************)
(* RiskManager.__init__                                                    *)
(***************************************************************************)
RiskInit ==
    [ initial_balance |-> initial_balance,
      current_balance |-> initial_balance,
      starting_day_balance |-> initial_balance,
      current_daily_pnl |-> 0,
      current_total_pnl |-> 0,
      circuit_breaker_tripped |-> FALSE ]

(***************************************************************************)
(* RiskManager.check_risk_status: the daily limit is tested first; either  *)
(* breach latches the breaker before the exception is raised.              *)
(***************************************************************************)
check_risk_status_DrawdownFirst(rs) ==
    IF rs.current_total_pnl <= -max_total_loss
    THEN [rs |-> [rs EXCEPT !.circuit_breaker_tripped = TRUE],
          exc |-> "MaxDrawdownExceeded"]
    ELSE IF rs.current_daily_pnl <= -max_daily_loss
    THEN [rs |-> [rs EXCEPT !.circuit_breaker_tripped = TRUE],
          exc |-> "DailyLossLimitExceeded"]
    ELSE [rs |-> rs, exc |-> None]

check_risk_status_NoLatch(rs) ==
    IF rs.current_daily_pnl <= -max_daily_loss
    THEN [rs |-> rs, exc |-> "DailyLossLimitExceeded"]
    ELSE IF rs.current_total_pnl <= -max_total_loss
    THEN [rs |-> rs, exc |-> "MaxDrawdownExceeded"]
    ELSE [rs |-> rs, exc |-> None]

check_risk_status(rs) ==
    IF rs.current_daily_pnl <= -max_daily_loss
    THEN [rs |-> [rs EXCEPT !.circuit_breaker_tripped = TRUE],
          exc |-> "DailyLossLimitExceeded"]
    ELSE IF rs.current_total_pnl <= -max_total_loss
    THEN [rs |-> [rs EXCEPT !.circuit_breaker_tripped = TRUE],
          exc |-> "MaxDrawdownExceeded"]
    ELSE [rs |-> rs, exc |-> None]

(***************************************************************************)
(* RiskManager.update_pnl(current_equity, current_day_pnl=None)            *)
(***************************************************************************)
update_pnl_Unlatched(rs, current_equity, current_day_pnl) ==
    LET written == [rs EXCEPT
                      !.current_total_pnl = current_equity - rs.initial_balance,
                      !.current_balance = current_equity,
                      !.current_daily_pnl =
                          IF current_day_pnl # <<>>
                          THEN current_day_pnl[1]
                          ELSE current_equity - rs.starting_day_balance,
                      !.circuit_breaker_tripped = FALSE]
    IN  check_risk_status(written)

update_pnl_RaisesWhenTripped(rs, current_equity, current_day_pnl) ==
    IF rs.circuit_breaker_tripped
    THEN check_risk_status(rs)
    ELSE LET written == [rs EXCEPT
                           !.current_total_pnl = current_equity - rs.initial_balance,
                           !.current_balance = current_equity,
                           !.current_daily_pnl =
                               IF current_day_pnl # <<>>
                               THEN current_day_pnl[1]
                               ELSE current_equity - rs.starting_day_balance]
         IN  check_risk_status(written)

update_pnl(rs, current_equity, current_day_pnl) ==
    IF rs.circuit_breaker_tripped
    THEN [rs |-> rs, exc |-> None]
    ELSE LET written == [rs EXCEPT
                           !.current_total_pnl = current_equity - rs.initial_balance,
                           !.current_balance = current_equity,
                           !.current_daily_pnl =
                               IF current_day_pnl # <<>>
                               THEN current_day_pnl[1]
                               ELSE current_equity - rs.starting_day_balance]
         IN  check_risk_status(written)

(***************************************************************************)
(* The sizing and leverage tests of can_execute_trade (steps 2 and 3).     *)
(* current_leverage = (balance + size) / balance is compared with          *)
(* max_leverage + 0.1; the quotient is cleared by cross-multiplication.    *)
(***************************************************************************)
SizingChecks(rs, size, current_pos) ==
    IF size + current_pos > max_position_size
    THEN "OrderRejectedRisk"
    ELSE IF rs.current_balance = 0
    THEN "DivisionByZero"
    ELSE IF \/ /\ rs.current_balance > 0
               /\ (rs.current_balance + size) * 10
                    > (max_leverage_x10 + leverage_buffer_x10) * rs.current_balance
            \/ /\ rs.current_balance < 0
               /\ (rs.current_balance + size) * 10
                    < (max_leverage_x10 + leverage_buffer_x10) * rs.current_balance
    THEN "OrderRejectedRisk"
    ELSE None

(***************************************************************************)
(* RiskManager.can_execute_trade(trade_size_notional,                      *)
(*                               current_position_notional)                *)
(***************************************************************************)
can_execute_trade_SizeFirst(rs, size, current_pos) ==
    LET sz == SizingChecks(rs, size, current_pos)
    IN  IF sz # None
        THEN [rs |-> rs, ret |-> FALSE, exc |-> sz]
        ELSE IF rs.circuit_breaker_tripped
        THEN [rs |-> rs, ret |-> FALSE, exc |-> None]
        ELSE LET chk == check_risk_status(rs)
             IN  [rs |-> chk.rs, ret |-> chk.exc = None, exc |-> None]

can_execute_trade_NoHealth(rs, size, current_pos) ==
    LET sz == SizingChecks(rs, size, current_pos)
    IN  [rs |-> rs, ret |-> sz = None, exc |-> sz]

can_execute_trade_ReturnsFalse(rs, size, current_pos) ==
    IF rs.circuit_breaker_tripped
    THEN [rs |-> rs, ret |-> FALSE, exc |-> None]
    ELSE LET chk == check_risk_status(rs)
         IN  IF chk.exc # None
             THEN [rs |-> chk.rs, ret |-> FALSE, exc |-> None]
             ELSE LET sz == SizingChecks(chk.rs, size, current_pos)
                  IN  [rs |-> chk.rs, ret |-> sz = None, exc |-> None]

can_execute_trade(rs, size, current_pos) ==
    IF rs.circuit_breaker_tripped
    THEN [rs |-> rs, ret |-> FALSE, exc |-> None]
    ELSE LET chk == check_risk_status(rs)
         IN  IF chk.exc # None
             THEN [rs |-> chk.rs, ret |-> FALSE, exc |-> None]
             ELSE LET sz == SizingChecks(chk.rs, size, current_pos)
                  IN  [rs |-> chk.rs, ret |-> sz = None, exc |-> sz]

(***************************************************************************)
(* RiskManager.reset_daily_stats(current_equity).  The final test compares *)
(* the freshly zeroed daily PnL with the total-loss limit, as the code     *)
(* does.                                                                   *)
(***************************************************************************)
reset_daily_stats_NoGuard(rs, current_equity) ==
    LET anchored == [rs EXCEPT !.starting_day_balance = current_equity,
                               !.current_daily_pnl = 0]
    IN  IF anchored.current_daily_pnl > -max_total_loss
        THEN [anchored EXCEPT !.circuit_breaker_tripped = FALSE]
        ELSE anchored

reset_daily_stats_NoAnchor(rs, current_equity) ==
    IF rs.current_total_pnl <= -max_total_loss
    THEN rs
    ELSE LET anchored == [rs EXCEPT !.current_daily_pnl = 0]
         IN  IF anchored.current_daily_pnl > -max_total_loss
             THEN [anchored EXCEPT !.circuit_breaker_tripped = FALSE]
             ELSE anchored

reset_daily_stats(rs, current_equity) ==
    IF rs.current_total_pnl <= -max_total_loss
    THEN rs
    ELSE LET anchored == [rs EXCEPT !.starting_day_balance = current_equity,
                                    !.current_daily_pnl = 0]
         IN  IF anchored.current_daily_pnl > -max_total_loss
             THEN [anchored EXCEPT !.circuit_breaker_tripped = FALSE]
             ELSE anchored

\* The call record before any direct call of a RiskManager operation.
NoCall ==
    [op |-> "init", equity |-> 0, day_pnl |-> <<>>, size |-> 0,
     current_pos |-> 0, pre |-> RiskInit, ret |-> None, exc |-> None]

(***************************************************************************)
(* The portfolio.  main() builds one broker, one RiskManager and one       *)
(* StatArbPairs per pair, and runs every strategy's run() as a task of one *)
(* event loop.  A task runs without interruption from one await to the     *)
(* next, so each action below is the code between two suspension points;   *)
(* a broker or database call is issued by the action that reaches it and   *)
(* completes (returns or raises) in the action that resumes after it.      *)
(***************************************************************************)
NumLoops == 2
Loops == 1..NumLoops
Main == 0
LegNames == {"a", "b"}
Symbols == Loops \X LegNames

target_position_value == 5000
notional_per_share == 100
z_score_threshold_x10 == 21
catastrophe_z_x10 == 40
exit_z_x10 == 5
lookback_window == 60

(***************************************************************************)
(* The z-score of calculate_signals.  With n values in the window, sum S,  *)
(* sum of squares Q and newest value cur,                                  *)
(*     z = (cur - mean) / std = (n*cur - S) / sqrt(n*Q - S*S)              *)
(* (np.std is the population deviation).  A z-score is kept exactly, as    *)
(* the pair num = n*cur - S, den2 = n*Q - S*S, and compared with a         *)
(* threshold t/10 by squaring; <<>> stands for "no z-score": the method    *)
(* returned before computing one.                                          *)
(***************************************************************************)
RECURSIVE SumTo(_, _)
SumTo(s, k) == IF k = 0 THEN 0 ELSE s[k] + SumTo(s, k - 1)

RECURSIVE SumSqTo(_, _)
SumSqTo(s, k) == IF k = 0 THEN 0 ELSE s[k] * s[k] + SumSqTo(s, k - 1)

ZStat(spreads) ==
    LET n == Len(spreads)
        S == SumTo(spreads, n)
        Q == SumSqTo(spreads, n)
    IN  [num |-> n * spreads[n] - S, den2 |-> n * Q - S * S]

\* A z-score of k/10 exactly.
ZOf(k) == [num |-> k, den2 |-> 100]

ZAbove(z, t_x10) == z.num > 0 /\ 100 * z.num * z.num > t_x10 * t_x10 * z.den2
ZBelowMinus(z, t_x10) == z.num < 0 /\ 100 * z.num * z.num > t_x10 * t_x10 * z.den2
AbsZAbove(z, t_x10) == 100 * z.num * z.num > t_x10 * t_x10 * z.den2
AbsZBelow(z, t_x10) == 100 * z.num * z.num < t_x10 * t_x10 * z.den2

\* What the collaborators may answer: account equity, last trade price,
\* the z-score of the current spread against the rolling history (<<>> when
\* the history is still short or its deviation is 0), and where the wall
\* clock stands when the loop looks at it.
BrokerEquities == {99400, 100000}
Prices == {0, 5, 100}
ZScores == {<<>>} \cup {<<ZOf(k)>> : k \in {-45, -25, 3, 10, 25, 45}}
Clocks == {"open", "eod", "closed"}

\* The broker's book is kept as the set of symbols with an open position,
\* which is all get_positions lets a strategy's control flow depend on.
FlatBook == {}

\* BrokerInterface.get_positions: the symbols with an open position.
get_positions(book) == book

\* self.positions = {p.symbol: p.qty for p in positions}, as strategy i reads
\* it: whether its own symbol_a and symbol_b are keys, and whether the dict is
\* empty.  The keys of other pairs are kept as the single mark "other".
PositionCache(book, i) ==
    {l \in LegNames : <<i, l>> \in get_positions(book)}
        \cup (IF \E s \in get_positions(book) : s[1] # i THEN {"other"} ELSE {})

IdleLeg == [pc |-> "none", qty |-> 0, side |-> "none"]
LegAlive(lg) == lg.pc \in {"submit", "sync_acct", "sync_pos"}

\* BaseStrategy.__init__ / StatArbPairs.__init__, and run() up to its first
\* await (the get_account of the initial sync_state).
StrategyInit ==
    [pc |-> "sync_acct", ctx |-> "init", task |-> "running",
     is_running |-> TRUE, initialized |-> FALSE, positions |-> {}, price_a |-> 0]

Runnable(i) == loop[i].task = "running" /\ mainPc # "done"

(***************************************************************************)
(* BaseStrategy.emergency_stop up to its await: the loop flag is cleared   *)
(* and close_all_positions is called.                                      *)
(***************************************************************************)
emergency_stop(lp) == [lp EXCEPT !.is_running = FALSE, !.pc = "estop_close",
                                 !.price_a = 0, !.ctx = "init"]

\* `except Exception` of run(): an exception raised anywhere in the try block
\* lands in emergency_stop.
Raise(i) ==
    /\ loop' = [loop EXCEPT ![i] = emergency_stop(loop[i])]
    /\ sweeps' = [sweeps EXCEPT ![i] = @ + 1]

(***************************************************************************)
(* The head of the while loop of run(): the 15:50 hard exit, then the      *)
(* session test, then the risk check.  The 15:50-16:00 window lies inside  *)
(* the session, so with an empty cache the loop goes on to trade.  ctx     *)
(* marks the tick: "eod_tick" from a time check inside the window until    *)
(* calculate_signals has taken its branch, "eod" during the sync_state of  *)
(* the hard exit, "init" otherwise.                                        *)
(***************************************************************************)
LoopTop_NoHardExit(lp, clock) ==
    IF ~lp.is_running
    THEN [lp EXCEPT !.task = "done", !.pc = "end"]
    ELSE IF clock = "closed"
    THEN [lp EXCEPT !.pc = "sleep_closed", !.ctx = "init"]
    ELSE [lp EXCEPT !.pc = "risk_acct",
                    !.ctx = IF clock = "eod" THEN "eod_tick" ELSE "init"]

LoopTop(lp, clock) ==
    IF ~lp.is_running
    THEN [lp EXCEPT !.task = "done", !.pc = "end"]
    ELSE IF clock = "eod" /\ lp.positions # {}
    THEN [lp EXCEPT !.pc = "eod_close", !.ctx = "init"]
    ELSE IF clock = "closed"
    THEN [lp EXCEPT !.pc = "sleep_closed", !.ctx = "init"]
    ELSE [lp EXCEPT !.pc = "risk_acct",
                    !.ctx = IF clock = "eod" THEN "eod_tick" ELSE "init"]

(***************************************************************************)
(* BaseStrategy.sync_state as called from run(): get_account, update_pnl,  *)
(* get_positions, cache refresh.                                           *)
(***************************************************************************)
SyncAccount(i) ==
    /\ Runnable(i) /\ loop[i].pc = "sync_acct"
    /\ \/ /\ Raise(i)
          /\ UNCHANGED <<risk, legs, brokerPos>>
       \/ \E e \in BrokerEquities :
            LET r == update_pnl(risk, e, <<>>)
            IN  /\ risk' = r.rs
                /\ IF r.exc # None
                   THEN Raise(i)
                   ELSE /\ loop' = [loop EXCEPT ![i].pc = "sync_pos"]
                        /\ UNCHANGED sweeps
                /\ UNCHANGED <<legs, brokerPos>>
    /\ UNCHANGED <<lastCall, sig, mainPc, mainExit>>

SyncPositions(i) ==
    /\ Runnable(i) /\ loop[i].pc = "sync_pos"
    /\ \/ Raise(i)
       \/ /\ LET synced == [loop[i] EXCEPT !.positions = PositionCache(brokerPos, i)]
             IN  IF loop[i].ctx = "init"
                 THEN \E clock \in Clocks :
                        loop' = [loop EXCEPT ![i] = LoopTop(synced, clock)]
                 ELSE loop' = [loop EXCEPT ![i] =
                                 [synced EXCEPT !.pc = "sleep_eod", !.ctx = "init"]]
          /\ UNCHANGED sweeps
    /\ UNCHANGED <<risk, lastCall, sig, legs, brokerPos, mainPc, mainExit>>

\* asyncio.sleep returning: the 60 s heartbeat, the 60 s market-closed wait
\* or the one-hour wait after the end-of-day flatten.
Wake(i) ==
    /\ Runnable(i) /\ loop[i].pc \in {"sleep", "sleep_closed", "sleep_eod"}
    /\ \E clock \in Clocks : loop' = [loop EXCEPT ![i] = LoopTop(loop[i], clock)]
    /\ UNCHANGED <<risk, lastCall, sig, legs, brokerPos, sweeps, mainPc, mainExit>>

\* The close_all_positions of the 15:50 branch, followed by sync_state.
EodClose(i) ==
    /\ Runnable(i) /\ loop[i].pc = "eod_close"
    /\ \/ /\ Raise(i)
          /\ UNCHANGED brokerPos
       \/ /\ brokerPos' = FlatBook
          /\ loop' = [loop EXCEPT ![i].pc = "sync_acct", ![i].ctx = "eod"]
          /\ UNCHANGED sweeps
    /\ UNCHANGED <<risk, lastCall, sig, legs, mainPc, mainExit>>

\* BaseStrategy._check_global_risk, then the entry of calculate_signals.
RiskAccount(i) ==
    /\ Runnable(i) /\ loop[i].pc = "risk_acct"
    /\ \/ /\ Raise(i)
          /\ UNCHANGED risk
       \/ \E e \in BrokerEquities :
            LET r == update_pnl(risk, e, <<>>)
            IN  /\ risk' = r.rs
                /\ IF r.exc # None
                   THEN Raise(i)
                   ELSE /\ loop' = [loop EXCEPT
                                     ![i].pc = IF loop[i].initialized
                                               THEN "price_a" ELSE "warm_a",
                                     ![i].ctx = IF loop[i].initialized
                                                THEN @ ELSE "init"]
                        /\ UNCHANGED sweeps
    /\ UNCHANGED <<lastCall, sig, legs, brokerPos, mainPc, mainExit>>

\* StatArbPairs.warm_up_data: two get_latest_bars calls, then initialized.
WarmUp(i) ==
    /\ Runnable(i) /\ loop[i].pc \in {"warm_a", "warm_b"}
    /\ \/ Raise(i)
       \/ /\ loop' = [loop EXCEPT ![i] =
                        IF loop[i].pc = "warm_a"
                        THEN [@ EXCEPT !.pc = "warm_b"]
                        ELSE [@ EXCEPT !.pc = "sleep", !.initialized = TRUE]]
          /\ UNCHANGED sweeps
    /\ UNCHANGED <<risk, lastCall, sig, legs, brokerPos, mainPc, mainExit>>

PriceA(i) ==
    /\ Runnable(i) /\ loop[i].pc = "price_a"
    /\ \/ Raise(i)
       \/ /\ \E p \in Prices :
               loop' = [loop EXCEPT ![i].pc = "price_b", ![i].price_a = p]
          /\ UNCHANGED sweeps
    /\ UNCHANGED <<risk, lastCall, sig, legs, brokerPos, mainPc, mainExit>>

(***************************************************************************)
(* StatArbPairs.calculate_signals from the z-score on: the catastrophe     *)
(* check, the two entry branches and the exit branch.  z is <<>> when the  *)
(* method returned before computing a z-score.                             *)
(***************************************************************************)
Classify_EntryFirst(z, positions) ==
    IF z = <<>>
    THEN "none"
    ELSE IF ZAbove(z[1], z_score_threshold_x10)
    THEN (IF "a" \notin positions THEN "enter_short" ELSE "none")
    ELSE IF ZBelowMinus(z[1], z_score_threshold_x10)
    THEN (IF "a" \notin positions THEN "enter_long" ELSE "none")
    ELSE IF AbsZBelow(z[1], exit_z_x10)
    THEN (IF "a" \in positions \/ "b" \in positions
          THEN "exit_close" ELSE "none")
    ELSE "none"

Classify_ExitOnA(z, positions) ==
    IF z = <<>>
    THEN "none"
    ELSE IF AbsZAbove(z[1], catastrophe_z_x10)
    THEN (IF positions # {} THEN "cat_close" ELSE "none")
    ELSE IF ZAbove(z[1], z_score_threshold_x10)
    THEN (IF "a" \notin positions THEN "enter_short" ELSE "none")
    ELSE IF ZBelowMinus(z[1], z_score_threshold_x10)
    THEN (IF "a" \notin positions THEN "enter_long" ELSE "none")
    ELSE IF AbsZBelow(z[1], exit_z_x10)
    THEN (IF "a" \in positions THEN "exit_close" ELSE "none")
    ELSE "none"

Classify(z, positions) ==
    IF z = <<>>
    THEN "none"
    ELSE IF AbsZAbove(z[1], catastrophe_z_x10)
    THEN (IF positions # {} THEN "cat_close" ELSE "none")
    ELSE IF ZAbove(z[1], z_score_threshold_x10)
    THEN (IF "a" \notin positions THEN "enter_short" ELSE "none")
    ELSE IF ZBelowMinus(z[1], z_score_threshold_x10)
    THEN (IF "a" \notin positions THEN "enter_long" ELSE "none")
    ELSE IF AbsZBelow(z[1], exit_z_x10)
    THEN (IF "a" \in positions \/ "b" \in positions
          THEN "exit_close" ELSE "none")
    ELSE "none"

\* qty = int(target_position_value // price)
Qty(price) == target_position_value \div price

\* The side of each leg: z above the threshold sells A and buys B, z below
\* the negative threshold buys A and sells B.
Side(act, l) ==
    IF act = "enter_short"
    THEN (IF l = "a" THEN "sell" ELSE "buy")
    ELSE (IF l = "a" THEN "buy" ELSE "sell")

\* The arguments execute_order passes to can_execute_trade for an order of
\* qty shares: qty * 100, and current_position_notional left at its default.
GateArgs(qty) ==
    [trade_size_notional |-> qty * notional_per_share,
     current_position_notional |-> 0]

(***************************************************************************)
(* BaseStrategy.execute_order up to its first await: the risk gate on      *)
(* qty * 100 and, when it returns True, the submit_order call.  No await   *)
(* separates the gate from the call.  The result is the leg's task state   *)
(* and the RiskState the gate leaves: "rejected" is a task ended by the    *)
(* gate's OrderRejectedRisk, which execute_order does not catch, "ok" a    *)
(* task that returned (here: the order was dropped on a False gate).       *)
(***************************************************************************)
execute_order_Ungated(rs, qty, side) ==
    LET g == can_execute_trade(rs, qty * notional_per_share, 0)
    IN  [rs |-> g.rs,
         leg |-> IF g.exc # None THEN [IdleLeg EXCEPT !.pc = "rejected"]
                 ELSE [pc |-> "submit", qty |-> qty, side |-> side]]

execute_order(rs, qty, side) ==
    LET args == GateArgs(qty)
        g == can_execute_trade(rs, args.trade_size_notional,
                               args.current_position_notional)
    IN  [rs |-> g.rs,
         leg |-> IF g.exc # None THEN [IdleLeg EXCEPT !.pc = "rejected"]
                 ELSE IF ~g.ret THEN [IdleLeg EXCEPT !.pc = "ok"]
                 ELSE [pc |-> "submit", qty |-> qty, side |-> side]]

(***************************************************************************)
(* The second get_last_price returning, then the rest of                   *)
(* calculate_signals up to its next await.  An entry hands both            *)
(* execute_order coroutines to asyncio.gather: each becomes a task of its  *)
(* own, leg A's first step runs, then leg B's, and run() waits.            *)
(***************************************************************************)
PriceB(i) ==
    /\ Runnable(i) /\ loop[i].pc = "price_b"
    /\ \/ /\ Raise(i)
          /\ UNCHANGED <<risk, legs>>
       \/ \E p \in Prices, z \in ZScores :
            LET pa == loop[i].price_a
                act == IF pa = 0 \/ p = 0 THEN "none"
                       ELSE Classify(z, loop[i].positions)
            IN  /\ UNCHANGED sweeps
                /\ IF act \in {"enter_short", "enter_long"}
                   THEN LET ea == execute_order(risk, Qty(pa), Side(act, "a"))
                            eb == execute_order(ea.rs, Qty(p), Side(act, "b"))
                        IN  /\ risk' = eb.rs
                            /\ legs' = [legs EXCEPT ![i] = [a |-> ea.leg, b |-> eb.leg]]
                            /\ loop' = [loop EXCEPT ![i].pc = "gather",
                                                    ![i].price_a = 0,
                                                    ![i].ctx = "init"]
                   ELSE /\ loop' = [loop EXCEPT
                                      ![i].pc = IF act = "none" THEN "sleep" ELSE act,
                                      ![i].price_a = 0, ![i].ctx = "init"]
                        /\ UNCHANGED <<risk, legs>>
    /\ UNCHANGED <<lastCall, sig, brokerPos, mainPc, mainExit>>

\* close_all_positions of the catastrophe or the exit branch returning,
\* then self.positions.clear().
SignalClose(i) ==
    /\ Runnable(i) /\ loop[i].pc \in {"cat_close", "exit_close"}
    /\ \/ /\ Raise(i)
          /\ UNCHANGED brokerPos
       \/ /\ brokerPos' = FlatBook
          /\ loop' = [loop EXCEPT ![i].pc = "sleep", ![i].positions = {}]
          /\ UNCHANGED sweeps
    /\ UNCHANGED <<risk, lastCall, sig, legs, mainPc, mainExit>>

(***************************************************************************)
(* The rest of execute_order, run by a leg's own task: submit_order        *)
(* returning, then sync_state.  A leg whose gather has already raised      *)
(* into run() is not cancelled by it: it runs on, and nobody awaits its    *)
(* result.                                                                 *)
(***************************************************************************)
LegRunnable(i, l) == LegAlive(legs[i][l]) /\ mainPc # "done"

\* The state a leg's task ends in: kept for the gather that awaits it,
\* dropped when no gather does.
Settle(i, outcome) ==
    IF loop[i].pc = "gather" THEN [IdleLeg EXCEPT !.pc = outcome] ELSE IdleLeg

\* The books an accepted order may leave: an order on a flat symbol opens a
\* position; an order on an open position adds to it, reduces it or closes
\* it, depending on quantities the book does not keep.
ApplyOrder(book, i, l) ==
    IF <<i, l>> \in book THEN {book, book \ {<<i, l>>}} ELSE {book \cup {<<i, l>>}}

LegSubmit(i, l) ==
    /\ LegRunnable(i, l) /\ legs[i][l].pc = "submit"
    /\ \/ /\ legs' = [legs EXCEPT ![i][l] = Settle(i, "exc")]
          /\ UNCHANGED brokerPos
       \/ /\ brokerPos' \in ApplyOrder(brokerPos, i, l)
          /\ legs' = [legs EXCEPT ![i][l].pc = "sync_acct"]
    /\ UNCHANGED <<risk, lastCall, sig, loop, sweeps, mainPc, mainExit>>

LegSyncAccount(i, l) ==
    /\ LegRunnable(i, l) /\ legs[i][l].pc = "sync_acct"
    /\ \/ /\ legs' = [legs EXCEPT ![i][l] = Settle(i, "exc")]
          /\ UNCHANGED risk
       \/ \E e \in BrokerEquities :
            LET r == update_pnl(risk, e, <<>>)
            IN  /\ risk' = r.rs
                /\ legs' = [legs EXCEPT ![i][l] =
                              IF r.exc # None THEN Settle(i, "exc")
                              ELSE [@ EXCEPT !.pc = "sync_pos"]]
    /\ UNCHANGED <<lastCall, sig, loop, brokerPos, sweeps, mainPc, mainExit>>

LegSyncPositions(i, l) ==
    /\ LegRunnable(i, l) /\ legs[i][l].pc = "sync_pos"
    /\ \/ /\ legs' = [legs EXCEPT ![i][l] = Settle(i, "exc")]
          /\ UNCHANGED loop
       \/ /\ loop' = [loop EXCEPT ![i].positions = PositionCache(brokerPos, i)]
          /\ legs' = [legs EXCEPT ![i][l] = Settle(i, "ok")]
    /\ UNCHANGED <<risk, lastCall, sig, brokerPos, sweeps, mainPc, mainExit>>

\* asyncio.gather returning to calculate_signals: both legs finished without
\* an exception; run() goes on to its heartbeat sleep.
GatherReturn(i) ==
    /\ Runnable(i) /\ loop[i].pc = "gather"
    /\ \A l \in LegNames : legs[i][l].pc = "ok"
    /\ loop' = [loop EXCEPT ![i].pc = "sleep"]
    /\ legs' = [legs EXCEPT ![i] = [a |-> IdleLeg, b |-> IdleLeg]]
    /\ UNCHANGED <<risk, lastCall, sig, brokerPos, sweeps, mainPc, mainExit>>

\* asyncio.gather raising the first exception of a leg into run(); the
\* other leg is left running.
GatherRaise(i) ==
    /\ Runnable(i) /\ loop[i].pc = "gather"
    /\ \E l \in LegNames : legs[i][l].pc \in {"exc", "rejected"}
    /\ Raise(i)
    /\ legs' = [legs EXCEPT ![i] =
                  [l \in LegNames |-> IF LegAlive(legs[i][l]) THEN legs[i][l]
                                      ELSE IdleLeg]]
    /\ UNCHANGED <<risk, lastCall, sig, brokerPos, mainPc, mainExit>>

\* The close_all_positions of emergency_stop returning or raising: run()
\* ends, normally in the first case and with the exception in the second.
EstopClose(i) ==
    /\ Runnable(i) /\ loop[i].pc = "estop_close"
    /\ \/ /\ brokerPos' = FlatBook
          /\ loop' = [loop EXCEPT ![i].pc = "end", ![i].task = "done"]
       \/ /\ loop' = [loop EXCEPT ![i].pc = "end", ![i].task = "failed"]
          /\ UNCHANGED brokerPos
    /\ UNCHANGED <<risk, lastCall, sig, legs, sweeps, mainPc, mainExit>>

(***************************************************************************)
(* main(): asyncio.wait(tasks, return_when=FIRST_EXCEPTION) returns when a *)
(* strategy task has ended with an exception or when all have ended; the   *)
(* finally block then cancels every other task of the event loop and       *)
(* gathers them.                                                           *)
(***************************************************************************)
TaskOver(i) == loop[i].task # "running"

\* A cancelled run() or execute_order task: CancelledError is raised at its
\* await; it is not an Exception, so the except clause of run() does not see
\* it, no handler runs and the task ends cancelled.
OnCancel(lp) ==
    IF lp.task = "running"
    THEN [lp EXCEPT !.task = "cancelled", !.pc = "end", !.price_a = 0]
    ELSE lp

\* Requests already handed to the broker's worker threads when their tasks
\* are cancelled may still be carried out: any of the orders in flight, and
\* a close-all in flight before or after them.
InFlightOrders == {s \in Symbols : legs[s[1]][s[2]].pc = "submit"}
CloseInFlight ==
    \E i \in Loops : /\ loop[i].task = "running"
                     /\ loop[i].pc \in {"eod_close", "cat_close", "exit_close",
                                        "estop_close"}
LandingBooks ==
    {brokerPos \cup landed : landed \in SUBSET InFlightOrders}
        \cup (IF CloseInFlight
              THEN {landed : landed \in SUBSET InFlightOrders}
              ELSE {})

\* The finally block of main(): every task of the event loop other than
\* main() is cancelled and gathered with return_exceptions=True, then the
\* database is disconnected and main() ends.  A cancelled task can take no
\* step of its own before it ends, so the block is one step.
Shutdown ==
    /\ loop' = [i \in Loops |-> OnCancel(loop[i])]
    /\ legs' = [i \in Loops |-> [l \in LegNames |-> IdleLeg]]
    /\ brokerPos' \in LandingBooks
    /\ mainPc' = "done"

MainWaitReturns ==
    /\ mainPc = "wait"
    /\ \/ \E i \in Loops : loop[i].task = "failed"
       \/ \A i \in Loops : TaskOver(i)
    /\ mainExit' = IF \E i \in Loops : loop[i].task = "failed" THEN "crash"
                   ELSE "normal"
    /\ Shutdown
    /\ UNCHANGED <<risk, lastCall, sig, sweeps>>

\* An interrupt while main() waits: the try block is left without either
\* except clause handling a failure, and the finally block runs.
MainInterrupt ==
    /\ mainPc = "wait"
    /\ mainExit' = "interrupt"
    /\ Shutdown
    /\ UNCHANGED <<risk, lastCall, sig, sweeps>>

(***************************************************************************)
(* The exit statuses the process can end with.  main() handles a failed    *)
(* strategy task in its `except Exception`, logs and returns, and          *)
(* asyncio.run(main()) then returns: status 0, as after a clean run.  An   *)
(* interrupt either reaches `except KeyboardInterrupt` of main() (status   *)
(* 0) or leaves asyncio.run as an uncaught KeyboardInterrupt (the process  *)
(* ends by SIGINT, status 130), depending on where it is delivered.        *)
(***************************************************************************)
ExitStatuses(exit) ==
    IF exit = "interrupt" THEN {0, 130} ELSE {0}

LoopStep(i) ==
    \/ SyncAccount(i)
    \/ SyncPositions(i)
    \/ Wake(i)
    \/ EodClose(i)
    \/ RiskAccount(i)
    \/ WarmUp(i)
    \/ PriceA(i)
    \/ PriceB(i)
    \/ SignalClose(i)
    \/ GatherReturn(i)
    \/ GatherRaise(i)
    \/ EstopClose(i)
    \/ \E l \in LegNames : LegSubmit(i, l)
    \/ \E l \in LegNames : LegSyncAccount(i, l)
    \/ \E l \in LegNames : LegSyncPositions(i, l)

MainStep == MainWaitReturns

\* The record of a strategy that has evaluated no signal yet.
NoSignal(spread_history, positions) ==
    [ticks |-> 0, spread_history |-> spread_history, positions |-> positions,
     pre_history |-> spread_history, pre_positions |-> positions,
     price_a |-> 0, price_b |-> 0, z |-> <<>>, act |-> "init",
     prev_act |-> "init", initialized |-> FALSE,
     history_times |-> <<>>, pre_times |-> <<>>, gate_calls |-> <<>>]

InitSystem ==
    /\ risk = RiskInit
    /\ lastCall = NoCall
    /\ loop = [i \in Loops |-> StrategyInit]
    /\ legs = [i \in Loops |-> [l \in LegNames |-> IdleLeg]]
    /\ brokerPos = FlatBook
    /\ sweeps = [c \in Loops \cup {Main} |-> 0]
    /\ mainPc = "wait"
    /\ mainExit = "none"

Init == InitSystem /\ sig = NoSignal(<<>>, {})

Next ==
    \/ \E i \in Loops : LoopStep(i)
    \/ MainStep
    \/ MainInterrupt

Spec == Init /\ [][Next]_vars

\* The event loop runs every task that is ready, and main() when its wait
\* is over; an interrupt is never owed.
FairSpec ==
    /\ Spec
    /\ \A i \in Loops : WF_vars(LoopStep(i))
    /\ WF_vars(MainStep)

(***************************************************************************)
(* The RiskManager driven directly through its public operations.          *)
(* lastCall records the most recent call: its arguments, the state it      *)
(* found, what it returned and what it raised.                             *)
(***************************************************************************)
CallUpdatePnl ==
    \E e \in Equities, d \in DayPnls :
        LET r == update_pnl(risk, e, d)
        IN  /\ risk' = r.rs
            /\ lastCall' = [NoCall EXCEPT !.op = "update_pnl", !.equity = e,
                                          !.day_pnl = d, !.pre = risk,
                                          !.exc = r.exc]
            /\ UNCHANGED <<sysVars, sig>>

CallCheckRiskStatus ==
    LET r == check_risk_status(risk)
    IN  /\ risk' = r.rs
        /\ lastCall' = [NoCall EXCEPT !.op = "check_risk_status", !.pre = risk,
                                      !.exc = r.exc]
        /\ UNCHANGED <<sysVars, sig>>

CallCanExecuteTrade ==
    \E s \in Notionals, c \in Notionals :
        LET r == can_execute_trade(risk, s, c)
        IN  /\ risk' = r.rs
            /\ lastCall' = [NoCall EXCEPT !.op = "can_execute_trade", !.size = s,
                                          !.current_pos = c, !.pre = risk,
                                          !.ret = IF r.ret THEN "True" ELSE "False",
                                          !.exc = r.exc]
            /\ UNCHANGED <<sysVars, sig>>

CallResetDailyStats ==
    \E e \in Equities :
        /\ risk' = reset_daily_stats(risk, e)
        /\ lastCall' = [NoCall EXCEPT !.op = "reset_daily_stats", !.equity = e,
                                      !.pre = risk]
        /\ UNCHANGED <<sysVars, sig>>

NextRisk ==
    \/ CallUpdatePnl
    \/ CallCheckRiskStatus
    \/ CallCanExecuteTrade
    \/ CallResetDailyStats

SpecRisk == Init /\ [][NextRisk]_vars

(***************************************************************************)
(* One StatArbPairs taken alone: calculate_signals applied tick after tick *)
(* to a spread history loaded by warm_up_data, to prices answered by the   *)
(* broker and to a position cache.  sig records the history and the cache  *)
(* the tick found, the prices, the z-score and what the tick went on to    *)
(* do: "warm_up" (the first tick), "enter_short" / "enter_long" (the two   *)
(* execute_order of an entry), "cat_close" / "exit_close"                  *)
(* (close_all_positions) or "none" (return).  history_times runs parallel  *)
(* to spread_history and holds the time of the bar or of the tick each     *)
(* value was computed from.                                                *)
(***************************************************************************)
MaxTicks == 2
SignalPrices == {0, 100, 101, 105, 110}
Caches == SUBSET {"a", "b", "other"}

\* Rows of market_bars for one symbol: time and close.
Bars(times, close_at) == { [time |-> t, close |-> close_at[t]] : t \in times }

\* The market_bars tables of the pair (symbol a, symbol b) warm_up_data may
\* find: more bars than the window with a constant spread, symbol a two bars
\* short of a window, and a full window with the spread swinging around 0.
BarTables ==
    { << Bars(0..lookback_window, [t \in 0..lookback_window |-> 110]),
         Bars(0..lookback_window, [t \in 0..lookback_window |-> 100]) >>,
      << Bars(3..lookback_window, [t \in 3..lookback_window |-> 110]),
         Bars(1..lookback_window, [t \in 1..lookback_window |-> 100]) >>,
      << Bars(1..lookback_window,
              [t \in 1..lookback_window |-> IF t % 2 = 1 THEN 98 ELSE 102]),
         Bars(1..lookback_window, [t \in 1..lookback_window |-> 100]) >> }

\* SELECT ... ORDER BY time DESC LIMIT limit: the rows as the query returns
\* them, the latest bar first.
RECURSIVE get_latest_bars(_, _)
get_latest_bars(rows, limit) ==
    IF limit = 0 \/ rows = {}
    THEN <<>>
    ELSE LET latest == CHOOSE r \in rows : \A q \in rows : q.time <= r.time
         IN  <<latest>> \o get_latest_bars(rows \ {latest}, limit - 1)

\* warm_up_data: one spread per pair of rows, appended in the order of the
\* rows.
warm_up_data(table_a, table_b) ==
    LET bars_a == get_latest_bars(table_a, lookback_window)
        bars_b == get_latest_bars(table_b, lookback_window)
        min_len == IF Len(bars_a) < Len(bars_b) THEN Len(bars_a)
                   ELSE Len(bars_b)
    IN  [spread_history |->
             [k \in 1..min_len |-> bars_a[k].close - bars_b[k].close],
         history_times |-> [k \in 1..min_len |-> bars_a[k].time]]

\* The time of a tick of the running loop: later than every stored bar.
TickTime(ticks) == lookback_window + ticks

\* deque(maxlen=window).append
DequeAppend(spread_history, x) ==
    IF Len(spread_history) = lookback_window
    THEN Append(Tail(spread_history), x)
    ELSE Append(spread_history, x)

\* calculate_signals without the test of the history's length.
calculate_signals_NoLengthTest(spread_history, positions, price_a, price_b) ==
    IF price_a = 0 \/ price_b = 0
    THEN [spread_history |-> spread_history, z |-> <<>>, act |-> "none",
          pushed |-> FALSE]
    ELSE LET h == DequeAppend(spread_history, price_a - price_b)
             z == ZStat(h)
         IN  IF z.den2 = 0
             THEN [spread_history |-> h, z |-> <<>>, act |-> "none",
                   pushed |-> TRUE]
             ELSE [spread_history |-> h, z |-> <<z>>,
                   act |-> Classify(<<z>>, positions), pushed |-> TRUE]

\* calculate_signals of an initialized strategy, from the two prices to the
\* branch taken.
calculate_signals(spread_history, positions, price_a, price_b) ==
    IF price_a = 0 \/ price_b = 0
    THEN [spread_history |-> spread_history, z |-> <<>>, act |-> "none",
          pushed |-> FALSE]
    ELSE LET h == DequeAppend(spread_history, price_a - price_b)
         IN  IF Len(h) < lookback_window
             THEN [spread_history |-> h, z |-> <<>>, act |-> "none",
                   pushed |-> TRUE]
             ELSE LET z == ZStat(h)
                  IN  IF z.den2 = 0
                      THEN [spread_history |-> h, z |-> <<>>, act |-> "none",
                            pushed |-> TRUE]
                      ELSE [spread_history |-> h, z |-> <<z>>,
                            act |-> Classify(<<z>>, positions),
                            pushed |-> TRUE]

\* The cache after the tick: cleared by the close branches; after an entry
\* either refreshed with both legs filled or left as it was (orders dropped
\* by the gate, or not yet filled at the resync).
CacheAfter(act, positions) ==
    IF act \in {"cat_close", "exit_close"} THEN {{}}
    ELSE IF act \in {"enter_short", "enter_long"}
    THEN {positions, positions \cup {"a", "b"}}
    ELSE {positions}

\* The first tick: calculate_signals loads the history and returns.
SignalWarmUp ==
    /\ ~sig.initialized
    /\ \E tables \in BarTables :
         LET w == warm_up_data(tables[1], tables[2])
         IN  sig' = [sig EXCEPT !.initialized = TRUE,
                                !.spread_history = w.spread_history,
                                !.history_times = w.history_times,
                                !.pre_history = sig.spread_history,
                                !.pre_times = sig.history_times,
                                !.pre_positions = sig.positions,
                                !.act = "warm_up", !.prev_act = sig.act,
                                !.gate_calls = <<>>]
    /\ UNCHANGED <<riskVars, sysVars>>

\* Every later tick.
\* The two execute_order of an entry at prices price_a and price_b: for each
\* leg the price, the quantity, the arguments of its can_execute_trade call
\* and where the gate left the order ("submit": handed to submit_order).
EntryGateCalls(rs, act, price_a, price_b) ==
    LET ea == execute_order(rs, Qty(price_a), Side(act, "a"))
        eb == execute_order(ea.rs, Qty(price_b), Side(act, "b"))
    IN  << [price |-> price_a, qty |-> Qty(price_a),
            args |-> GateArgs(Qty(price_a)), leg |-> ea.leg.pc],
           [price |-> price_b, qty |-> Qty(price_b),
            args |-> GateArgs(Qty(price_b)), leg |-> eb.leg.pc] >>

SignalTick ==
    /\ sig.initialized
    /\ sig.ticks < MaxTicks
    /\ \E pa \in SignalPrices, pb \in SignalPrices :
         LET r == calculate_signals(sig.spread_history, sig.positions, pa, pb)
         IN  \E c \in CacheAfter(r.act, sig.positions) :
               sig' = [ticks |-> sig.ticks + 1,
                       spread_history |-> r.spread_history, positions |-> c,
                       pre_history |-> sig.spread_history,
                       pre_positions |-> sig.positions,
                       price_a |-> pa, price_b |-> pb, z |-> r.z,
                       act |-> r.act, prev_act |-> sig.act,
                       initialized |-> TRUE,
                       history_times |->
                           IF r.pushed
                           THEN DequeAppend(sig.history_times,
                                            TickTime(sig.ticks + 1))
                           ELSE sig.history_times,
                       pre_times |-> sig.history_times,
                       gate_calls |->
                           IF r.act \in {"enter_short", "enter_long"}
                           THEN EntryGateCalls(risk, r.act, pa, pb)
                           ELSE <<>>]
    /\ UNCHANGED <<riskVars, sysVars>>

InitSignal ==
    /\ InitSystem
    /\ sig \in {NoSignal(<<>>, c) : c \in Caches}

NextSignal ==
    \/ SignalWarmUp
    \/ SignalTick

SpecSignal == InitSignal /\ [][NextSignal]_vars

(***************************************************************************)
(* Properties of the RiskManager (checked under SpecRisk).                 *)
(***************************************************************************)

\* C1: circuit-breaker latch.  Whatever operation is called on a tripped
\* breaker (update_pnl with any equity, check_risk_status, can_execute_trade)
\* the breaker is still tripped afterwards; only reset_daily_stats may leave
\* it untripped.
C1_BreakerLatched ==
    (lastCall.pre.circuit_breaker_tripped /\ lastCall.op # "reset_daily_stats")
        => risk.circuit_breaker_tripped

\* A tripped breaker has seen update_pnl with a fully recovered equity and is
\* still tripped.
C1_Witness ==
    /\ lastCall.op = "update_pnl"
    /\ lastCall.pre.circuit_breaker_tripped
    /\ lastCall.equity = initial_balance
    /\ risk.circuit_breaker_tripped

\* C2: while the breaker is tripped can_execute_trade returns False for every
\* trade notional and existing exposure, raises nothing (not even
\* OrderRejectedRisk for an oversized trade) and leaves the RiskState as it
\* found it, so repeating the call repeats the result.
C2_TrippedGateRefuses ==
    (lastCall.op = "can_execute_trade" /\ lastCall.pre.circuit_breaker_tripped)
        => /\ lastCall.ret = "False"
           /\ lastCall.exc = None
           /\ risk = lastCall.pre

\* The gate was asked for an exposure above max_position_size while tripped.
C2_Witness ==
    /\ lastCall.op = "can_execute_trade"
    /\ lastCall.pre.circuit_breaker_tripped
    /\ lastCall.size + lastCall.current_pos > max_position_size
    /\ lastCall.ret = "False"

\* C3: reset_daily_stats called while the stored total PnL is at or below
\* -max_total_loss changes nothing: the breaker stays as it was and
\* starting_day_balance and current_daily_pnl keep their values.
C3_ResetNoOpWhenBlown ==
    (lastCall.op = "reset_daily_stats"
        /\ lastCall.pre.current_total_pnl <= -max_total_loss)
        => /\ risk.circuit_breaker_tripped = lastCall.pre.circuit_breaker_tripped
           /\ risk.starting_day_balance = lastCall.pre.starting_day_balance
           /\ risk.current_daily_pnl = lastCall.pre.current_daily_pnl
           /\ risk = lastCall.pre

\* A reset with a new equity anchor was attempted on a blown, tripped account.
C3_Witness ==
    /\ lastCall.op = "reset_daily_stats"
    /\ lastCall.pre.current_total_pnl <= -max_total_loss
    /\ lastCall.pre.circuit_breaker_tripped
    /\ lastCall.equity # lastCall.pre.starting_day_balance
    /\ lastCall.pre.current_daily_pnl # 0

\* C4: update_pnl on an untripped breaker raises DailyLossLimitExceeded
\* exactly when the recomputed daily PnL (the override, else equity minus
\* starting_day_balance) is <= -max_daily_loss; otherwise it raises
\* MaxDrawdownExceeded exactly when equity minus initial_balance is
\* <= -max_total_loss; the breaker is tripped whenever it raises and is still
\* untripped when it returns normally.
C4_UpdatePnlSignals ==
    (lastCall.op = "update_pnl" /\ ~lastCall.pre.circuit_breaker_tripped)
        => LET daily == IF lastCall.day_pnl # <<>>
                        THEN lastCall.day_pnl[1]
                        ELSE lastCall.equity - lastCall.pre.starting_day_balance
               total == lastCall.equity - lastCall.pre.initial_balance
           IN  /\ lastCall.exc \in
                    {None, "DailyLossLimitExceeded", "MaxDrawdownExceeded"}
               /\ (lastCall.exc = "DailyLossLimitExceeded")
                    <=> (daily <= -max_daily_loss)
               /\ (lastCall.exc = "MaxDrawdownExceeded")
                    <=> (daily > -max_daily_loss /\ total <= -max_total_loss)
               /\ (lastCall.exc # None) => risk.circuit_breaker_tripped
               /\ (lastCall.exc = None) => ~risk.circuit_breaker_tripped

\* The scenario 100000, 99600, 99400 with max_daily_loss = 500: the second
\* update raises DailyLossLimitExceeded and trips the breaker.
C4_Witness ==
    /\ lastCall.op = "update_pnl"
    /\ lastCall.day_pnl = <<>>
    /\ lastCall.pre.current_balance = 99600
    /\ lastCall.pre.starting_day_balance = 100000
    /\ ~lastCall.pre.circuit_breaker_tripped
    /\ lastCall.equity = 99400
    /\ lastCall.exc = "DailyLossLimitExceeded"
    /\ risk.circuit_breaker_tripped

(***************************************************************************)
(* Properties of the running portfolio (checked under Spec, the liveness   *)
(* property under FairSpec).                                               *)
(***************************************************************************)
Tripped == risk.circuit_breaker_tripped

\* Strategy i has taken the except path of run(): emergency_stop has been
\* entered and has called close_all_positions.
Crashed(i) == sweeps[i] >= 1

\* A step in which leg l of strategy i calls broker.submit_order.
SubmitCalled(i, l) == legs[i][l].pc # "submit" /\ legs'[i][l].pc = "submit"

\* A step in which the order of leg l of strategy i is accepted by the broker.
OrderLands(i, l) == legs[i][l].pc = "submit" /\ legs'[i][l].pc = "sync_acct"

\* C5: no strategy calls broker.submit_order while the breaker is tripped:
\* the call is made in the same step as a gate that found the breaker
\* untripped, under every interleaving of the strategies.
C5_NoSubmitCallWhileTripped ==
    [][\A i \in Loops, l \in LegNames :
          SubmitCalled(i, l) => (~Tripped /\ ~Tripped')]_vars

\* Both legs of one strategy have passed the gate and have their orders in
\* flight, and the other strategy's update_pnl has since tripped the breaker
\* and sent it into its emergency stop.
C5_Witness ==
    \E i, j \in Loops :
        /\ i # j
        /\ \A l \in LegNames : legs[i][l].pc = "submit"
        /\ Tripped
        /\ loop[j].pc = "estop_close"

\* C6: fail-fast supervision.  Once a strategy has suffered an unrecoverable
\* failure, eventually no strategy task is running any more.
C6_FailFast ==
    (\E i \in Loops : Crashed(i)) ~> (\A i \in Loops : TaskOver(i))

\* C7: a strategy cancelled by the orchestrator because another strategy
\* failed has issued exactly one close-all-positions sweep when it ends.
C7_CancelledLoopSweepsOnce ==
    \A i \in Loops :
        (loop[i].task = "cancelled" /\ mainExit = "crash") => sweeps[i] = 1

\* C8: when main() ends with the breaker tripped or after an abnormal
\* shutdown (a strategy failure or an interrupt), the orchestrator itself has
\* issued one final close-all-positions sweep.
C8_FinalSweep ==
    (mainPc = "done" /\ (Tripped \/ mainExit # "normal")) => sweeps[Main] = 1

\* A step in which a post-trade sync_state of leg l of strategy i pushes the
\* account equity into the RiskManager (update_pnl) or refreshes the cache.
LegSyncs(i, l) ==
    \/ legs[i][l].pc = "sync_acct" /\ legs'[i][l].pc = "sync_pos"
    \/ legs[i][l].pc = "sync_acct" /\ Tripped' /\ ~Tripped
    \/ legs[i][l].pc = "sync_pos" /\ legs'[i][l].pc \in {"ok", "none"}
           /\ mainPc' # "done" /\ loop'[i].positions = PositionCache(brokerPos, i)

\* C9: once a tick of strategy i has failed, the strategy issues exactly one
\* close-all-positions and nothing of it runs any more: run() executes no
\* further heartbeat, no order of the strategy is accepted by the broker and
\* no sync_state of the strategy updates the RiskManager or the cache.
C9_HaltedIsFinal ==
    [][\A i \in Loops :
          Crashed(i) =>
              /\ sweeps'[i] = 1
              /\ loop'[i].pc \in {"estop_close", "end"}
              /\ \A l \in LegNames : ~OrderLands(i, l) /\ ~LegSyncs(i, l)]_vars

\* C10: once the close-all-positions of strategy i's emergency stop has been
\* carried out and run() has ended, no order of strategy i is accepted by the
\* broker any more.
C10_NoOrderAfterEmergencyStop ==
    [][\A i \in Loops, l \in LegNames :
          (Crashed(i) /\ loop[i].task = "done") => ~OrderLands(i, l)]_vars

\* C11: a rejection of the risk gate (OrderRejectedRisk for exposure above
\* max_position_size or leverage above the limit) is local: while no other
\* call of the strategy's order path has failed, the strategy calls no
\* close-all-positions and does not enter its emergency stop.
C11_RejectionIsLocal ==
    [][\A i \in Loops :
          (/\ loop[i].pc = "gather"
           /\ \E l \in LegNames : legs[i][l].pc = "rejected"
           /\ \A l \in LegNames : legs[i][l].pc # "exc")
              => (sweeps'[i] = sweeps[i] /\ loop'[i].pc # "estop_close")]_vars

(***************************************************************************)
(* Properties of the signal logic.                                         *)
(***************************************************************************)
Entries == {"enter_short", "enter_long"}
PairHeld(positions) == positions \cap {"a", "b"} # {}

\* C12: catastrophe precedence.  On a tick whose z-score is beyond the
\* catastrophe threshold (|z| > 4.0) neither the entry rules nor the exit
\* rule act: no entry is made, whether or not the pair is flat.
C12_CatastrophePrecedence ==
    (sig.z # <<>> /\ AbsZAbove(sig.z[1], catastrophe_z_x10))
        => sig.act \notin Entries \cup {"exit_close"}

\* A tick with z > 4.0 (so also beyond the entry threshold) on a flat pair
\* with an empty cache: nothing is done.
C12_Witness ==
    /\ sig.z # <<>>
    /\ ZAbove(sig.z[1], catastrophe_z_x10)
    /\ ZAbove(sig.z[1], z_score_threshold_x10)
    /\ sig.pre_positions = {}
    /\ sig.act = "none"

\* The window holds lookback_window identical values.
IsFlatWindow(h) ==
    Len(h) = lookback_window /\ \A k \in 1..Len(h) : h[k] = h[1]

\* C13: zero-deviation hold.  A tick that starts with lookback_window
\* identical spreads in the history does nothing (no order, no close),
\* whatever spread it observes.
C13_ZeroDeviationHold ==
    (sig.ticks > 0 /\ IsFlatWindow(sig.pre_history)) => sig.act = "none"

\* C14: an entry (the step that hands the two execute_order to gather) is
\* made only on a tick where the strategy's cache holds neither leg of its
\* pair, and its two orders have opposite sides.
C14_EntryOnlyWhenFlat ==
    [][\A i \in Loops :
          (loop[i].pc = "price_b" /\ loop'[i].pc = "gather")
              => /\ ~PairHeld(loop[i].positions)
                 /\ (\A l \in LegNames : legs'[i][l].pc = "submit")
                        => {legs'[i].a.side, legs'[i].b.side} = {"buy", "sell"}]_vars

\* C15: exit and hold.  With a z-score inside the exit band (|z| < 0.5) the
\* tick closes when a leg of the pair is held and does nothing when none
\* is; with 0.5 <= |z| <= 2.1 it does nothing.
C15_ExitAndHold ==
    (sig.ticks > 0 /\ sig.z # <<>>)
        => /\ (AbsZBelow(sig.z[1], exit_z_x10) /\ PairHeld(sig.pre_positions))
                  => sig.act = "exit_close"
           /\ (AbsZBelow(sig.z[1], exit_z_x10) /\ ~PairHeld(sig.pre_positions))
                  => sig.act = "none"
           /\ (/\ ~AbsZBelow(sig.z[1], exit_z_x10)
               /\ ~AbsZAbove(sig.z[1], z_score_threshold_x10))
                  => sig.act = "none"

\* A flat pair entered short A / long B on one tick, and the next tick, with
\* both legs in the cache and |z| < 0.5, exits.
C15_Witness ==
    /\ sig.prev_act = "enter_short"
    /\ sig.pre_positions = {"a", "b"}
    /\ sig.z # <<>> /\ AbsZBelow(sig.z[1], exit_z_x10)
    /\ sig.act = "exit_close"

(***************************************************************************)
(* Properties of the running portfolio, second part.                       *)
(***************************************************************************)
\* C16: no strategy idles in the market-closed wait of run() while its
\* position cache shows open positions: the market-closed branch is reached
\* with positions only after a flatten, which leaves the cache empty.
C16_FlattenOnMarketClosed ==
    \A i \in Loops : loop[i].pc = "sleep_closed" => loop[i].positions = {}

\* C17: the gated order path.  For every leg of every entry:
\*  - submit_order is called only in the step in which can_execute_trade,
\*    asked about that order, returned True;
\*  - an order is dropped (the leg returns without a submission) only when
\*    the gate refused, and then it is not submitted later;
\*  - after an accepted submission the path goes through get_account with
\*    update_pnl and then get_positions, and it returns only from there,
\*    with the cache refreshed from the broker.
C17_GatedOrderPath ==
    [][\A i \in Loops, l \in LegNames :
          LET pc == legs[i][l].pc
              pc2 == legs'[i][l].pc
          IN  /\ SubmitCalled(i, l)
                    => /\ loop[i].pc = "price_b"
                       /\ can_execute_trade(
                              risk, legs'[i][l].qty * notional_per_share, 0).ret
              /\ (pc # "ok" /\ pc2 = "ok")
                    => \/ loop[i].pc = "price_b" /\ Tripped'
                       \/ /\ pc = "sync_pos"
                          /\ loop'[i].positions = PositionCache(brokerPos, i)
              /\ (pc # "sync_acct" /\ pc2 = "sync_acct") => pc = "submit"
              /\ (pc # "sync_pos" /\ pc2 = "sync_pos")
                    => /\ pc = "sync_acct"
                       /\ risk' = update_pnl(risk, risk'.current_balance, <<>>).rs]_vars

\* An entry whose leg A has been submitted, accepted and resynced: the order
\* path has returned, the broker holds the position and the cache shows it.
C17_Witness ==
    \E i \in Loops :
        /\ loop[i].pc = "gather"
        /\ legs[i].a.pc = "ok"
        /\ <<i, "a">> \in brokerPos
        /\ "a" \in loop[i].positions

\* C18: when main() ends on its own (not by an interrupt) after a fatal
\* failure - a strategy that crashed (its tick failed, or update_pnl
\* signalled a breach), a failed strategy task or a tripped breaker - the
\* process does not exit with status 0, the status of a clean shutdown.
C18_NonZeroExitOnFailure ==
    (/\ mainPc = "done" /\ mainExit # "interrupt"
     /\ (mainExit = "crash" \/ Tripped \/ \E i \in Loops : Crashed(i)))
        => 0 \notin ExitStatuses(mainExit)

\* C19: once update_pnl has signalled a breach (the breaker is tripped and
\* the strategy that made the call is in its emergency stop), eventually no
\* strategy is running any more.
C19_BreachHaltsAll ==
    (Tripped /\ \E i \in Loops : Crashed(i)) ~> (\A i \in Loops : TaskOver(i))

\* C20: a strategy that is cancelled while an order of its own is in flight
\* ends with its position cache resynced from the broker, so the cache
\* shows what became of the order.
C20_CancelResyncs ==
    [][\A i \in Loops :
          (/\ loop[i].task = "running" /\ loop'[i].task = "cancelled"
           /\ \E l \in LegNames : legs[i][l].pc = "submit")
              => loop'[i].positions = PositionCache(brokerPos', i)]_vars

\* The position cache of strategy i shows what the broker holds.
CacheCurrent(i) == loop[i].positions = PositionCache(brokerPos, i)

\* C21: the cache is refreshed from the broker on every tick.  A strategy
\* that keeps running therefore has, again and again, a cache that shows
\* the broker's positions: it is never out of date for ever.
C21_CacheRefreshedEveryTick ==
    \A i \in Loops : []<>(TaskOver(i) \/ CacheCurrent(i))

(***************************************************************************)
(* Properties of the RiskManager, second part (checked under SpecRisk).    *)
(***************************************************************************)
\* Neither PnL limit is breached in RiskState rs.
WithinLimits(rs) ==
    /\ rs.current_daily_pnl > -max_daily_loss
    /\ rs.current_total_pnl > -max_total_loss

\* (current_balance + size) / current_balance > max_leverage + 0.1, for a
\* positive balance.
LeverageExceeded(rs, size) ==
    (rs.current_balance + size) * 10
        > (max_leverage_x10 + leverage_buffer_x10) * rs.current_balance

C23_UntrippedWithinLimits ==
    ~risk.circuit_breaker_tripped => WithinLimits(risk)

\* An update_pnl that booked a loss inside the limits and left the breaker
\* untripped.
C23_Witness ==
    /\ lastCall.op = "update_pnl"
    /\ ~risk.circuit_breaker_tripped
    /\ risk.current_daily_pnl < 0
    /\ risk.current_total_pnl < 0

\* C24: update_pnl called on a tripped breaker returns normally and changes
\* nothing, whatever equity it is given.
C24_UpdateNoOpWhenTripped ==
    (lastCall.op = "update_pnl" /\ lastCall.pre.circuit_breaker_tripped)
        => (lastCall.exc = None /\ risk = lastCall.pre)

\* update_pnl on a tripped breaker with an equity that differs from the
\* stored balance and would breach the total-loss limit.
C24_Witness ==
    /\ lastCall.op = "update_pnl"
    /\ lastCall.pre.circuit_breaker_tripped
    /\ lastCall.equity # lastCall.pre.current_balance
    /\ lastCall.equity - lastCall.pre.initial_balance <= -max_total_loss
    /\ lastCall.pre.current_total_pnl > -max_total_loss

\* C25: reset_daily_stats(e) on a stored total PnL above -max_total_loss
\* anchors starting_day_balance at e, zeroes the daily PnL and untrips the
\* breaker, leaving initial_balance, current_balance and current_total_pnl
\* alone; and an update_pnl(e2) without override on an untripped breaker
\* books the daily PnL e2 - starting_day_balance.
C25_ResetAnchorsDay ==
    /\ (/\ lastCall.op = "reset_daily_stats"
        /\ lastCall.pre.current_total_pnl > -max_total_loss)
           => risk = [lastCall.pre EXCEPT
                        !.starting_day_balance = lastCall.equity,
                        !.current_daily_pnl = 0,
                        !.circuit_breaker_tripped = FALSE]
    /\ (/\ lastCall.op = "update_pnl" /\ lastCall.day_pnl = <<>>
        /\ ~lastCall.pre.circuit_breaker_tripped)
           => risk.current_daily_pnl
                  = lastCall.equity - lastCall.pre.starting_day_balance

\* A reset on a breaker tripped by the daily limit, with a new anchor: the
\* breaker is untripped and the day starts at the equity passed.
C25_Witness ==
    /\ lastCall.op = "reset_daily_stats"
    /\ lastCall.pre.circuit_breaker_tripped
    /\ lastCall.pre.current_total_pnl > -max_total_loss
    /\ lastCall.equity # lastCall.pre.starting_day_balance
    /\ ~risk.circuit_breaker_tripped
    /\ risk.starting_day_balance = lastCall.equity

(***************************************************************************)
(* Properties of the running portfolio, third part.                        *)
(***************************************************************************)
\* Strategy i is on the end-of-day path of run(): close_all_positions, then
\* sync_state, then the one-hour sleep.
OnEodPath(i) ==
    \/ loop[i].pc \in {"eod_close", "sleep_eod"}
    \/ loop[i].pc \in {"sync_acct", "sync_pos"} /\ loop[i].ctx = "eod"

\* The run() task of strategy i has left its try block: by an exception
\* (emergency stop) or by cancellation.
LeftLoop(lp) == lp.pc \in {"estop_close", "end"}

\* C26: the end-of-day flatten.  A loop head that finds the clock in the
\* 15:50 window and the cache not empty calls close_all_positions; from there
\* the strategy goes, unless a call fails or it is cancelled, through the
\* flattened book, the account resync, the cache resync and the one-hour
\* sleep, in this order, and starts no order on the way; only the end of
\* that sleep brings it back to the loop head.
C26_EndOfDayFlatten ==
    [][\A i \in Loops :
          /\ (loop[i].is_running /\ loop[i].positions # {})
                => LoopTop(loop[i], "eod").pc = "eod_close"
          /\ (loop[i].pc = "eod_close" /\ loop'[i] # loop[i])
                => \/ LeftLoop(loop'[i])
                   \/ /\ loop'[i].pc = "sync_acct" /\ loop'[i].ctx = "eod"
                      /\ brokerPos' = FlatBook
          /\ (loop[i].pc = "sync_acct" /\ loop[i].ctx = "eod"
                /\ loop'[i] # loop[i])
                => \/ LeftLoop(loop'[i])
                   \/ loop'[i].pc = "sync_pos" /\ loop'[i].ctx = "eod"
          /\ (loop[i].pc = "sync_pos" /\ loop[i].ctx = "eod"
                /\ loop'[i] # loop[i])
                => \/ LeftLoop(loop'[i])
                   \/ /\ loop'[i].pc = "sleep_eod"
                      /\ loop'[i].positions = PositionCache(brokerPos, i)
          /\ (loop'[i].pc = "sleep_eod" /\ loop[i].pc # "sleep_eod")
                => loop[i].pc = "sync_pos" /\ loop[i].ctx = "eod"
          /\ OnEodPath(i) => \A l \in LegNames : ~SubmitCalled(i, l)]_vars

\* A strategy in its one-hour sleep after the flatten, with the book flat
\* and its cache resynced to empty.
C26_Witness ==
    \E i \in Loops :
        /\ loop[i].pc = "sleep_eod"
        /\ brokerPos = FlatBook
        /\ loop[i].positions = {}
        /\ loop[i].task = "running"

\* C27: the spread history never holds more than lookback_window values, and
\* when a tick pushes a spread onto a full history the value it evicts (the
\* head of the history the tick found) is the oldest one: no other value of
\* that history is older, including when the history came from warm_up_data.
C27_OldestEvicted ==
    /\ Len(sig.spread_history) <= lookback_window
    /\ (/\ sig.ticks > 0
        /\ sig.price_a # 0 /\ sig.price_b # 0
        /\ Len(sig.pre_history) = lookback_window)
           => \A k \in 1..Len(sig.pre_times) :
                  sig.pre_times[1] <= sig.pre_times[k]

\* C28: warming gate.  The tick that warms up leaves the cache alone and
\* computes no z-score; a tick that leaves the history shorter than
\* lookback_window computes no z-score, takes no branch and leaves the cache
\* alone; a tick with a price of 0 for either leg pushes nothing and takes no
\* branch.
C28_WarmingGate ==
    /\ sig.act = "warm_up"
           => sig.z = <<>> /\ sig.positions = sig.pre_positions
    /\ (sig.ticks > 0 /\ Len(sig.spread_history) < lookback_window)
           => /\ sig.z = <<>> /\ sig.act = "none"
              /\ sig.positions = sig.pre_positions
    /\ (sig.ticks > 0 /\ (sig.price_a = 0 \/ sig.price_b = 0))
           => /\ sig.spread_history = sig.pre_history
              /\ sig.z = <<>> /\ sig.act = "none"
              /\ sig.positions = sig.pre_positions

\* A strategy holding the pair pushed a spread far from the ones it holds
\* onto a history still short of the window, and returned.
C28_Witness ==
    /\ sig.ticks > 0
    /\ sig.price_a = 100 /\ sig.price_b = 110
    /\ Len(sig.spread_history) = Len(sig.pre_history) + 1
    /\ Len(sig.spread_history) < lookback_window
    /\ sig.pre_positions = {"a", "b"}
    /\ sig.act = "none"

\* C29: within one strategy loop at most one order path (gate passed,
\* submission or resync outstanding) is in progress at any time; in
\* particular no leg has passed its gate while the other leg's submission or
\* resync is still outstanding.
C29_OrderPathsSequential ==
    \A i \in Loops : ~(LegAlive(legs[i].a) /\ LegAlive(legs[i].b))

\* C30: every can_execute_trade call of an entry carries the full notional of
\* its order: the quantity is floor(target_position_value / price), the
\* incoming notional is quantity times the leg's price, and the existing
\* exposure passed is the exposure the strategy holds (more than 0 when its
\* cache shows a position).
C30_GateSeesFullNotional ==
    \A k \in 1..Len(sig.gate_calls) :
        LET c == sig.gate_calls[k]
        IN  /\ c.qty = target_position_value \div c.price
            /\ c.args.trade_size_notional = c.qty * c.price
            /\ sig.pre_positions # {} => c.args.current_position_notional > 0

\* The breaker is tripped and the total-loss floor is not breached.
DailyBreach == Tripped /\ risk.current_total_pnl > -max_total_loss

\* C31: the running system resets the risk state daily: once the breaker has
\* been tripped by a daily-loss breach, the system, unless it has shut down,
\* comes to a state in which the breaker is untripped again.
C31_DailyReset == DailyBreach ~> (~Tripped \/ mainPc = "done")

\* C32: reset_daily_stats called with an equity at or below the total-loss
\* floor (current_equity - initial_balance <= -max_total_loss) does not leave
\* the breaker untripped, whatever total PnL the risk state has stored.
C32_NoResetBelowFloor ==
    (/\ lastCall.op = "reset_daily_stats"
     /\ lastCall.equity - initial_balance <= -max_total_loss)
        => risk.circuit_breaker_tripped

\* A step in which the close_all_positions of strategy i's catastrophe or
\* exit branch returns.
SignalCloseDone(i) ==
    loop[i].pc \in {"cat_close", "exit_close"} /\ loop'[i].pc = "sleep"

\* C33: pair independence.  When the exit or the catastrophe branch of one
\* strategy has closed positions, every position on another pair's symbols
\* that was open before is still open; and a strategy takes its catastrophe
\* branch only with a leg of its own pair in its cache.
C33_PairIndependence ==
    [][\A i \in Loops :
          /\ SignalCloseDone(i)
                => \A s \in brokerPos : s[1] # i => s \in brokerPos'
          /\ (loop[i].pc # "cat_close" /\ loop'[i].pc = "cat_close")
                => loop[i].positions \cap LegNames # {}]_vars

\* C34: two-leg entry is all-or-nothing.  In the step in which a strategy
\* starts the two execute_order of an entry, either both legs pass the gate
\* and call broker.submit_order or neither does.
C34_EntryAllOrNothing ==
    [][\A i \in Loops :
          (loop[i].pc = "price_b" /\ loop'[i].pc = "gather")
              => (SubmitCalled(i, "a") <=> SubmitCalled(i, "b"))]_vars

\* C35: no order is submitted on a tick whose time check fell inside the
\* end-of-day window (a weekday between 15:50 and 16:00).
C35_NoEntryInEodWindow ==
    [][\A i \in Loops, l \in LegNames :
          SubmitCalled(i, l) => loop[i].ctx # "eod_tick"]_vars

====
